---- MODULE Spec2Model ----
(***************************************************************************)
(* A model of humane_cli.py: the HumaneData object (the loaded backup      *)
(* snapshot, its queries and merge_habits) under Spec, the terminal        *)
(* application HumaneCLI with its screen stack under SpecApp, and the      *)
(* merge command under SpecCmd.                                            *)
(*                                                                         *)
(* Python values are modelled as follows.  A dict is a function whose      *)
(* DOMAIN is the set of keys that are present, so that a missing key is    *)
(* really missing.  A list is a sequence.  A string the code slices,       *)
(* compares or lower-cases (date, category, name) is a sequence of         *)
(* one-character strings; an opaque string (an id, createdAt) is a string. *)
(* A list comprehension with a condition is SelectSeq.                     *)
(***************************************************************************)
EXTENDS Integers, Sequences, FiniteSets, TLC

\* The longest entries list and habits list of a generated snapshot.
MaxEntries == 3
MaxHabits == 3

\* The slice bound of entry.get("date", "")[:10].
DateLen == 10

VARIABLES
    document,  \* the JSON document that was loaded (the file, or the data argument)
    data,      \* self.data
    habits,    \* self.habits: the index from habit id to habit
    entries,   \* self.entries
    call,      \* the last operation called on the object, with its arguments
    ret,       \* what that call returned or raised
    screen_stack,  \* HumaneCLI: the screens the application pushed, the top last
    pressed,   \* HumaneCLI: the last key pressed
    app,       \* HumaneCLI: "not_started", "running", "exited" or "crashed"
    pc,        \* merge command: the step it is at
    output,    \* merge command: the --output option ("None" when not given)
    target,    \* merge command: the habit answered to the target prompt
    sources,   \* merge command: the habits answered to the sources prompt
    console,   \* merge command: the prompts answered and the messages printed
    written,   \* merge command: the snapshot written, and where
    exit_code  \* merge command: the exit code of the process

app_vars == <<screen_stack, pressed, app>>
cmd_vars == <<pc, output, target, sources, console, written, exit_code>>
vars == <<document, data, habits, entries, call, ret, app_vars, cmd_vars>>

-----------------------------------------------------------------------------
(* Python primitives *)

\* None, as returned by dict.get(key) on a missing key; it equals no string.
\* NoneS is None where the other operand is a string modelled as a sequence of
\* characters ("None" is not a character, so NoneS equals no such string).
None == "None"
NoneS == <<None>>

\* dict.get(k, default)
Get(d, k, default) == IF k \in DOMAIN d THEN d[k] ELSE default

\* s[:n]
Slice(s, n) == SubSeq(s, 1, IF Len(s) < n THEN Len(s) ELSE n)

\* set(list)
SetOf(s) == {s[i] : i \in 1..Len(s)}

\* A call that returned v, and a call that raised exception x.
Returned(v) == [exc |-> None, value |-> v]
Raised(x) == [exc |-> x]

-----------------------------------------------------------------------------
(* HumaneData.merge_habits *)

\* Mutant of AllSourceIds: the target is not removed from the sources.
AllSourceIds_KeepTarget(target_habit_id, source_habit_ids) ==
    SetOf(source_habit_ids)

\* all_source_ids: set(source_habit_ids) without the target.
AllSourceIds(target_habit_id, source_habit_ids) ==
    SetOf(source_habit_ids) \ {target_habit_id}

\* The condition of the collecting loop: the entry belongs to the target or a source.
Contributes(entry, target_habit_id, all_source_ids) ==
    \/ Get(entry, "habitId", None) = target_habit_id
    \/ Get(entry, "habitId", None) \in all_source_ids

\* Mutant of NormDate: the date is not cut to its first 10 characters.
NormDate_Whole(entry) == Get(entry, "date", <<>>)

\* date = entry.get("date", "")[:10]
NormDate(entry) == Slice(Get(entry, "date", <<>>), DateLen)

\* entries_by_date[date].append(entry) on a defaultdict(list): the dict keeps its
\* keys in insertion order, here a sequence of [date, day_entries] groups.
Append2Group(groups, date, entry) ==
    IF \E i \in 1..Len(groups) : groups[i].date = date
    THEN [i \in 1..Len(groups) |->
            IF groups[i].date = date
            THEN [groups[i] EXCEPT !.day_entries = Append(@, entry)]
            ELSE groups[i]]
    ELSE Append(groups, [date |-> date, day_entries |-> <<entry>>])

\* The collecting loop over self.entries.
RECURSIVE EntriesByDate(_, _, _, _)
EntriesByDate(es, target_habit_id, all_source_ids, groups) ==
    IF es = <<>> THEN groups
    ELSE EntriesByDate(Tail(es), target_habit_id, all_source_ids,
            IF Contributes(Head(es), target_habit_id, all_source_ids)
            THEN Append2Group(groups, NormDate(Head(es)), Head(es))
            ELSE groups)

\* The key of max(): e.get("value", 0)
ValueKey(e) == Get(e, "value", 0)

\* Mutant of MaxScan: an equal key replaces the best so far (the last maximum wins).
RECURSIVE MaxScan_LastWins(_, _)
MaxScan_LastWins(best, rest) ==
    IF rest = <<>> THEN best
    ELSE MaxScan_LastWins(
            IF ValueKey(Head(rest)) >= ValueKey(best) THEN Head(rest) ELSE best,
            Tail(rest))

\* max(day_entries, key=...): a left-to-right scan that replaces the best so far
\* only by an entry whose key is strictly greater.
RECURSIVE MaxScan(_, _)
MaxScan(best, rest) ==
    IF rest = <<>> THEN best
    ELSE MaxScan(IF ValueKey(Head(rest)) > ValueKey(best) THEN Head(rest) ELSE best,
                 Tail(rest))

\* Mutant of MaxEntry: the first entry of the day instead of the greatest.
MaxEntry_First(day_entries) == Head(day_entries)

MaxEntry(day_entries) == MaxScan(Head(day_entries), Tail(day_entries))

\* Mutant of MergedEntry: the merged entry keeps the habitId of the winning entry.
MergedEntry_KeepHabitId(max_entry, target_habit_id, date) ==
    [id |-> max_entry["id"],
     habitId |-> Get(max_entry, "habitId", target_habit_id),
     date |-> date,
     value |-> Get(max_entry, "value", 0),
     createdAt |-> Get(max_entry, "createdAt", "")]

\* Mutant of MergedEntry: the merged entry is a copy of the winning entry with
\* habitId and date replaced.
MergedEntry_Spread(max_entry, target_habit_id, date) ==
    ("habitId" :> target_habit_id) @@ ("date" :> date) @@ max_entry

\* The dict appended to merged_entries for one date group.
MergedEntry(max_entry, target_habit_id, date) ==
    [id |-> max_entry["id"],
     habitId |-> target_habit_id,
     date |-> date,
     value |-> Get(max_entry, "value", 0),
     createdAt |-> Get(max_entry, "createdAt", "")]

\* merged_entries, when no max_entry["id"] raises.
MergedEntries(groups, target_habit_id) ==
    [i \in 1..Len(groups) |->
        MergedEntry(MaxEntry(groups[i].day_entries), target_habit_id, groups[i].date)]

\* Mutant of MergeRaises: the id of every contributing entry is read.
MergeRaises_AnyEntry(groups) ==
    \E i \in 1..Len(groups) :
        \E j \in 1..Len(groups[i].day_entries) :
            "id" \notin DOMAIN groups[i].day_entries[j]

\* max_entry["id"] raises KeyError when the winning entry of a group has no id.
MergeRaises(groups) ==
    \E i \in 1..Len(groups) : "id" \notin DOMAIN MaxEntry(groups[i].day_entries)

\* Mutant of OtherEntries: the untouched entries get their date normalized too.
OtherEntries_Normalized(es, target_habit_id, all_source_ids) ==
    LET Keep(e) == /\ Get(e, "habitId", None) # target_habit_id
                   /\ Get(e, "habitId", None) \notin all_source_ids
        kept == SelectSeq(es, Keep)
    IN [i \in 1..Len(kept) |->
          IF "date" \in DOMAIN kept[i]
          THEN [kept[i] EXCEPT !["date"] = Slice(@, DateLen)]
          ELSE kept[i]]

\* Mutant of OtherEntries: the entries of the target stay among the untouched.
OtherEntries_KeepTarget(es, target_habit_id, all_source_ids) ==
    LET Keep(e) == Get(e, "habitId", None) \notin all_source_ids
    IN SelectSeq(es, Keep)

\* other_entries
OtherEntries(es, target_habit_id, all_source_ids) ==
    LET Keep(e) == /\ Get(e, "habitId", None) # target_habit_id
                   /\ Get(e, "habitId", None) \notin all_source_ids
    IN SelectSeq(es, Keep)

\* Mutant of NewHabits: the habits are taken from the index self.habits, which
\* holds one habit per id.
NewHabits_FromIndex(hs, all_source_ids) ==
    LET Keep(h) == h["id"] \notin all_source_ids
        Last(i) == \A j \in (i + 1)..Len(hs) : hs[j]["id"] # hs[i]["id"]
        idx == {i \in 1..Len(hs) : Last(i) /\ Keep(hs[i])}
    IN [k \in 1..Cardinality(idx) |->
            hs[CHOOSE i \in idx : Cardinality({j \in idx : j < i}) = k - 1]]

\* new_habits
NewHabits(hs, all_source_ids) ==
    LET Keep(h) == h["id"] \notin all_source_ids
    IN SelectSeq(hs, Keep)

\* Mutant of NewData: the result holds the two lists only.
NewData_ListsOnly(d, new_habits, new_entries) ==
    [habits |-> new_habits, entries |-> new_entries]

\* {**self.data, "habits": new_habits, "entries": other_entries + merged_entries}
NewData(d, new_habits, new_entries) ==
    ("habits" :> new_habits) @@ ("entries" :> new_entries) @@ d

\* merge_habits on an object whose self.data is d and self.entries is es.
merge_habits(d, es, target_habit_id, source_habit_ids) ==
    LET all_source_ids == AllSourceIds(target_habit_id, source_habit_ids)
        entries_by_date == EntriesByDate(es, target_habit_id, all_source_ids, <<>>)
    IN IF MergeRaises(entries_by_date) THEN Raised("KeyError")
       ELSE Returned(NewData(d,
                NewHabits(Get(d, "habits", <<>>), all_source_ids),
                OtherEntries(es, target_habit_id, all_source_ids)
                    \o MergedEntries(entries_by_date, target_habit_id)))

-----------------------------------------------------------------------------
(* Strings *)

\* The characters of the model's strings, in code point order.
Chars == <<"-", "0", "1", "2", "5", "8", ":", "B", "F", "G", "K", "L", "S", "T",
           "U", "W", "a", "b", "c", "d", "e", "f", "g", "i", "k", "l", "n", "o",
           "r", "s", "t", "u", "w", "z", "ß">>

\* The position of a character in code point order.
Ord(c) == CHOOSE i \in 1..Len(Chars) : Chars[i] = c

\* s < t on Python strings: lexicographic by code point, a proper prefix first.
RECURSIVE StrLess(_, _)
StrLess(s, t) ==
    IF t = <<>> THEN FALSE
    ELSE IF s = <<>> THEN TRUE
    ELSE IF Head(s) # Head(t) THEN Ord(Head(s)) < Ord(Head(t))
    ELSE StrLess(Tail(s), Tail(t))

\* str.lower() on one character, and on a string; a character that is not an
\* upper-case letter ("ß" included) is its own lower case.
LowerChar(c) ==
    CASE c = "B" -> "b" [] c = "F" -> "f" [] c = "G" -> "g" [] c = "K" -> "k"
      [] c = "L" -> "l" [] c = "S" -> "s" [] c = "T" -> "t" [] c = "U" -> "u"
      [] c = "W" -> "w" [] OTHER -> c

Lower(s) == [i \in 1..Len(s) |-> LowerChar(s[i])]

\* str.upper() on one character (the upper case of "ß" is "SS"), and on a string.
UpperChar(c) ==
    CASE c = "a" -> <<"A">> [] c = "b" -> <<"B">> [] c = "c" -> <<"C">>
      [] c = "d" -> <<"D">> [] c = "e" -> <<"E">> [] c = "f" -> <<"F">>
      [] c = "g" -> <<"G">> [] c = "i" -> <<"I">> [] c = "k" -> <<"K">>
      [] c = "l" -> <<"L">> [] c = "n" -> <<"N">> [] c = "o" -> <<"O">>
      [] c = "r" -> <<"R">> [] c = "s" -> <<"S">> [] c = "t" -> <<"T">>
      [] c = "u" -> <<"U">> [] c = "w" -> <<"W">> [] c = "z" -> <<"Z">>
      [] c = "ß" -> <<"S", "S">> [] OTHER -> <<c>>

RECURSIVE Upper(_)
Upper(s) == IF s = <<>> THEN <<>> ELSE UpperChar(Head(s)) \o Upper(Tail(s))

\* p in s on Python strings: p is a substring of s.
Contains(s, p) ==
    \E i \in 0..(Len(s) - Len(p)) : SubSeq(s, i + 1, i + Len(p)) = p

Str_uncategorized == <<"u", "n", "c", "a", "t", "e", "g", "o", "r", "i", "z", "e", "d">>
Str_Unknown == <<"U", "n", "k", "n", "o", "w", "n">>
Str_fitness == <<"f", "i", "t", "n", "e", "s", "s">>
Str_Wellness == <<"W", "e", "l", "l", "n", "e", "s", "s">>

-----------------------------------------------------------------------------
(* HumaneData: the queries *)

\* categories[key].append(habit) on a defaultdict(list), keys in insertion order.
Append2Category(groups, key, habit) ==
    IF \E i \in 1..Len(groups) : groups[i].category = key
    THEN [i \in 1..Len(groups) |->
            IF groups[i].category = key
            THEN [groups[i] EXCEPT !.habits = Append(@, habit)]
            ELSE groups[i]]
    ELSE Append(groups, [category |-> key, habits |-> <<habit>>])

RECURSIVE GroupHabits(_, _)
GroupHabits(hs, groups) ==
    IF hs = <<>> THEN groups
    ELSE GroupHabits(Tail(hs),
            Append2Category(groups, Get(Head(hs), "category", Str_uncategorized), Head(hs)))

\* get_categories: the dict as the sequence of its items, in insertion order.
get_categories(d) == GroupHabits(Get(d, "habits", <<>>), <<>>)

get_habits_by_category(d, category) ==
    LET Keep(h) == Get(h, "category", NoneS) = category
    IN SelectSeq(Get(d, "habits", <<>>), Keep)

get_entries_for_habit(es, habit_id) ==
    LET Keep(e) == Get(e, "habitId", None) = habit_id
    IN SelectSeq(es, Keep)

\* self.habits.get(habit_id), then habit.get("name", "Unknown") if habit else "Unknown"
get_habit_name(index, habit_id) ==
    IF habit_id \in DOMAIN index THEN Get(index[habit_id], "name", Str_Unknown)
    ELSE Str_Unknown

\* Mutant of SortedItems: the items stay in insertion order.
SortedItems_Unsorted(groups) == groups

\* sorted(categories.items()): the keys are distinct, so the key alone orders.
RECURSIVE SortedItems(_)
SortedItems(groups) ==
    IF groups = <<>> THEN <<>>
    ELSE LET least == CHOOSE i \in 1..Len(groups) :
                        \A j \in 1..Len(groups) :
                            j # i => StrLess(groups[i].category, groups[j].category)
             rest == [k \in 1..(Len(groups) - 1) |->
                        IF k < least THEN groups[k] ELSE groups[k + 1]]
         IN <<groups[least]>> \o SortedItems(rest)

\* sum(h.get("targetPerWeek", 0) for h in habits)
RECURSIVE TotalTarget(_)
TotalTarget(hs) ==
    IF hs = <<>> THEN 0
    ELSE Get(Head(hs), "targetPerWeek", 0) + TotalTarget(Tail(hs))

get_category_stats(d) ==
    LET items == SortedItems(get_categories(d))
    IN [i \in 1..Len(items) |->
          <<items[i].category, Len(items[i].habits), TotalTarget(items[i].habits)>>]

\* Mutant of find_habits_by_name: the names are not lower-cased.
find_habits_by_name_NameAsIs(d, pattern) ==
    LET pattern_lower == Lower(pattern)
        Keep(h) == Contains(Get(h, "name", <<>>), pattern_lower)
    IN SelectSeq(Get(d, "habits", <<>>), Keep)

find_habits_by_name(d, pattern) ==
    LET pattern_lower == Lower(pattern)
        Keep(h) == Contains(Lower(Get(h, "name", <<>>)), pattern_lower)
    IN SelectSeq(Get(d, "habits", <<>>), Keep)

-----------------------------------------------------------------------------
(* The snapshots the model loads *)

Day1 == <<"2", "0", "2", "5", "-", "1", "1", "-", "2", "8">>
Day1T == <<"2", "0", "2", "5", "-", "1", "1", "-", "2", "8", "T", "1", "0", ":", "0", "0">>
ShortDate == <<"2", "0", "2", "5", "-", "1", "1">>

Name_TGU == <<"T", "G", "U">>
Name_TguL == <<"T", "g", "u", "-", "L">>
Name_Kb == <<"K", "b">>
Name_Fuss == <<"F", "u", "ß">>

\* Habits as the backup holds them; a habit always has an id (the constructor
\* raises KeyError otherwise), the other fields may be missing, and two habits may
\* share an id.
H_tgu == [id |-> "tgu", name |-> Name_TGU, category |-> Str_fitness, targetPerWeek |-> 3]
H_tgul == [id |-> "tgu-l", name |-> Name_TguL, category |-> Str_fitness]
H_kb == [id |-> "kb", name |-> Name_Kb, targetPerWeek |-> 5, icon |-> "k"]
H_kb2 == [id |-> "kb", name |-> Name_Fuss, category |-> Str_Wellness, targetPerWeek |-> 7]
H_unc == [id |-> "tgu", category |-> Str_uncategorized, targetPerWeek |-> 2]

HabitShapes == {H_tgu, H_tgul, H_kb, H_kb2, H_unc}

RefHabits == <<H_tgu, H_tgul, H_kb>>

\* d without key k
Without(d, k) == [x \in DOMAIN d \ {k} |-> d[x]]

E(habitId, date, value) == [habitId |-> habitId, date |-> date, value |-> value]

\* The fields of an entry other than id and createdAt.  An entry may lack any of
\* them and may carry a field the program does not know (note).
NoIdShape == E("tgu", Day1, 2)
NoCreatedAtShape == Without(E("tgu-l", Day1, 1), "date")

EntryShapes ==
    { E("tgu", Day1, 1),
      Without(E("tgu", Day1T, 0), "value"),
      E("tgu", ShortDate, 1) @@ ("note" :> "n"),
      E("tgu-l", Day1T, 2) @@ ("note" :> "n"),
      E("tgu-l", Day1, -1),
      E("kb", Day1T, 1),
      Without(E("kb", Day1, 1), "habitId"),
      NoIdShape,
      NoCreatedAtShape }

\* The id and createdAt of the entry at position i: distinct per entry.
EntryIds == <<"e1", "e2", "e3", "e4", "e5">>
CreatedAts == <<"t1", "t2", "t3", "t4", "t5">>

Stamp(i, shape) ==
    (IF shape = NoIdShape THEN <<>> ELSE ("id" :> EntryIds[i]))
    @@ (IF shape = NoCreatedAtShape THEN <<>> ELSE ("createdAt" :> CreatedAts[i]))
    @@ shape

EntryLists ==
    UNION { { [i \in 1..n |-> Stamp(i, f[i])] : f \in [1..n -> EntryShapes] }
            : n \in 0..MaxEntries }

HabitLists == UNION { [1..n -> HabitShapes] : n \in 0..MaxHabits }

RefEntries == <<Stamp(1, E("tgu", Day1, 1)), Stamp(2, E("tgu-l", Day1T, 2)),
                Stamp(3, E("kb", Day1, 2))>>

Snap(hs, es) == [version |-> 1, habits |-> hs, entries |-> es]

\* The documents: a rich entries list with the reference habits, a rich habits
\* list with the reference entries, and documents that lack a top-level key.
Documents ==
    { Snap(RefHabits, es) : es \in EntryLists }
    \cup { Snap(hs, RefEntries) : hs \in HabitLists }
    \cup { Without(Snap(RefHabits, <<>>), "entries"),
           Without(Snap(<<>>, RefEntries), "habits"),
           Without(Snap(RefHabits, RefEntries), "version") }

\* The arguments of the calls.
TargetIds == {"tgu", "kb"}
SourceLists == {<<>>, <<"tgu">>, <<"tgu-l">>, <<"tgu", "tgu-l">>}
HabitIds == {"tgu", "zz"}
Categories == {Str_fitness, Str_Wellness, Str_uncategorized}
Patterns == {<<>>, <<"g", "U">>, <<"k">>, <<"ß">>}

-----------------------------------------------------------------------------
(* HumaneData.__init__ and the calls *)

\* self.habits = {h["id"]: h for h in ...}: the last habit with an id wins.
HabitIndex(hs) ==
    [id \in {hs[i]["id"] : i \in 1..Len(hs)} |->
        hs[CHOOSE i \in 1..Len(hs) :
              /\ hs[i]["id"] = id
              /\ \A j \in (i + 1)..Len(hs) : hs[j]["id"] # id]]

\* HumaneData(data=document): the object alone, as the tests build it.
Loaded(doc) ==
    /\ document = doc
    /\ data = doc
    /\ habits = HabitIndex(Get(doc, "habits", <<>>))
    /\ entries = Get(doc, "entries", <<>>)
    /\ call = [op |-> "__init__"]
    /\ ret = Returned(None)

\* No application is running, and no merge command.
NoApp == screen_stack = <<>> /\ pressed = None /\ app = "not_started"
NoCmd ==
    /\ pc = "not_started" /\ output = None /\ target = None /\ sources = <<>>
    /\ console = <<>> /\ written = <<>> /\ exit_code = None

Init ==
    /\ \E doc \in Documents : Loaded(doc)
    /\ NoApp
    /\ NoCmd

\* Mutant of MergeHabits: the merge is stored in the object.
MergeHabits_InPlace ==
    \E t \in TargetIds, S \in SourceLists :
        LET r == merge_habits(data, entries, t, S)
        IN /\ call' = [op |-> "merge_habits", target_habit_id |-> t, source_habit_ids |-> S]
           /\ ret' = r
           /\ data' = IF r.exc = None THEN r.value ELSE data
           /\ entries' = Get(data', "entries", <<>>)
           /\ habits' = HabitIndex(Get(data', "habits", <<>>))
           /\ UNCHANGED <<document, app_vars, cmd_vars>>

\* Every method reads self.data, self.habits and self.entries and assigns none.
MergeHabits ==
    \E t \in TargetIds, S \in SourceLists :
        /\ call' = [op |-> "merge_habits", target_habit_id |-> t, source_habit_ids |-> S]
        /\ ret' = merge_habits(data, entries, t, S)
        /\ UNCHANGED <<document, data, habits, entries, app_vars, cmd_vars>>

GetCategories ==
    /\ call' = [op |-> "get_categories"]
    /\ ret' = Returned(get_categories(data))
    /\ UNCHANGED <<document, data, habits, entries, app_vars, cmd_vars>>

GetHabitsByCategory ==
    \E c \in Categories :
        /\ call' = [op |-> "get_habits_by_category", category |-> c]
        /\ ret' = Returned(get_habits_by_category(data, c))
        /\ UNCHANGED <<document, data, habits, entries, app_vars, cmd_vars>>

GetEntriesForHabit ==
    \E id \in HabitIds :
        /\ call' = [op |-> "get_entries_for_habit", habit_id |-> id]
        /\ ret' = Returned(get_entries_for_habit(entries, id))
        /\ UNCHANGED <<document, data, habits, entries, app_vars, cmd_vars>>

GetHabitName ==
    \E id \in HabitIds :
        /\ call' = [op |-> "get_habit_name", habit_id |-> id]
        /\ ret' = Returned(get_habit_name(habits, id))
        /\ UNCHANGED <<document, data, habits, entries, app_vars, cmd_vars>>

GetCategoryStats ==
    /\ call' = [op |-> "get_category_stats"]
    /\ ret' = Returned(get_category_stats(data))
    /\ UNCHANGED <<document, data, habits, entries, app_vars, cmd_vars>>

FindHabitsByName ==
    \E p \in Patterns :
        /\ call' = [op |-> "find_habits_by_name", pattern |-> p]
        /\ ret' = Returned(find_habits_by_name(data, p))
        /\ UNCHANGED <<document, data, habits, entries, app_vars, cmd_vars>>

Next ==
    \/ MergeHabits
    \/ GetCategories
    \/ GetHabitsByCategory
    \/ GetEntriesForHabit
    \/ GetHabitName
    \/ GetCategoryStats
    \/ FindHabitsByName

Spec == Init /\ [][Next]_vars

-----------------------------------------------------------------------------
(* The terminal application: HumaneCLI and its four screens.  Textual keeps  *)
(* the screens in a stack above a default screen of its own; screen_stack   *)
(* holds the screens the program pushed.  A screen that is covered keeps    *)
(* its fields and its cursor.                                               *)

\* str(n) of an integer.
Digits == <<"0", "1", "2", "3", "4", "5", "6", "7", "8", "9">>

RECURSIVE StrNat(_)
StrNat(n) ==
    IF n < 10 THEN <<Digits[n + 1]>>
    ELSE StrNat(n \div 10) \o <<Digits[(n % 10) + 1]>>

Str(n) == IF n < 0 THEN <<"-">> \o StrNat(0 - n) ELSE StrNat(n)

\* str.capitalize(): the first character in title case, the rest in lower case.
Capitalize(s) ==
    IF s = <<>> THEN <<>>
    ELSE (IF s[1] = "ß" THEN <<"S", "s">> ELSE UpperChar(s[1])) \o Lower(Tail(s))

StrLeq(a, b) == a = b \/ StrLess(a, b)

\* sorted(self.habits, key=lambda h: h.get("name", "")): a stable sort, so a
\* habit goes behind the habits sorted so far whose name is not greater.
RECURSIVE SortedByName(_)
SortedByName(hs) ==
    IF hs = <<>> THEN <<>>
    ELSE LET front == SortedByName(SubSeq(hs, 1, Len(hs) - 1))
             h == hs[Len(hs)]
             p == Cardinality({i \in 1..Len(front) :
                                  StrLeq(Get(front[i], "name", <<>>), Get(h, "name", <<>>))})
         IN SubSeq(front, 1, p) \o <<h>> \o SubSeq(front, p + 1, Len(front))

\* sorted(self.entries, key=lambda e: e.get("date", ""), reverse=True): descending,
\* entries of equal date in their original order.
RECURSIVE SortedByDateReversed(_)
SortedByDateReversed(es) ==
    IF es = <<>> THEN <<>>
    ELSE LET front == SortedByDateReversed(SubSeq(es, 1, Len(es) - 1))
             e == es[Len(es)]
             p == Cardinality({i \in 1..Len(front) :
                                  StrLeq(Get(e, "date", <<>>), Get(front[i], "date", <<>>))})
         IN SubSeq(front, 1, p) \o <<e>> \o SubSeq(front, p + 1, Len(front))

\* CategoriesScreen.on_mount: one row per category, keyed by the category.
CategoryRows(d) ==
    LET stats == get_category_stats(d)
    IN [i \in 1..Len(stats) |->
          [key |-> stats[i][1],
           cells |-> <<Capitalize(stats[i][1]), Str(stats[i][2]), Str(stats[i][3])>>]]

CategoriesScreen(d) ==
    [screen |-> "CategoriesScreen", rows |-> CategoryRows(d), cursor_row |-> 0]

\* HabitsScreen.on_mount: one row per habit of self.habits, sorted by name, keyed
\* by the habit id.
HabitRows(es, hs) ==
    LET sorted == SortedByName(hs)
    IN [i \in 1..Len(sorted) |->
          [key |-> sorted[i]["id"],
           cells |-> <<Get(sorted[i], "name", Str_Unknown),
                       Str(Get(sorted[i], "targetPerWeek", 0)),
                       Str(Len(get_entries_for_habit(es, sorted[i]["id"])))>>]]

HabitsScreen(d, es, category) ==
    LET hs == get_habits_by_category(d, category)
    IN [screen |-> "HabitsScreen", category |-> category, habits |-> hs,
        rows |-> HabitRows(es, hs), cursor_row |-> 0]

\* DataTable.add_row raises DuplicateKey on a row key the table already has.
DuplicateKey(rows) ==
    \E i, j \in 1..Len(rows) : i < j /\ rows[i].key = rows[j].key

\* EntriesScreen.on_mount: one row per entry, newest date first, or the row
\* "No entries".  The cells are the day, the value and createdAt (an opaque
\* string in this model, shorter than the 10 characters it is cut to).
Str_NoEntries == <<"N", "o", " ", "e", "n", "t", "r", "i", "e", "s">>

EntryRows(es) ==
    IF es = <<>> THEN << [cells |-> <<Str_NoEntries, <<"-">>, "-">>] >>
    ELSE LET sorted == SortedByDateReversed(es)
         IN [i \in 1..Len(sorted) |->
               [cells |-> <<Slice(Get(sorted[i], "date", <<>>), DateLen),
                            Str(Get(sorted[i], "value", 0)),
                            Get(sorted[i], "createdAt", "")>>]]

EntriesScreen(index, es, habit_id) ==
    LET own == get_entries_for_habit(es, habit_id)
    IN [screen |-> "EntriesScreen", habit_id |-> habit_id,
        habit_name |-> get_habit_name(index, habit_id),
        entries |-> own, rows |-> EntryRows(own), cursor_row |-> 0]

HelpScreen == [screen |-> "HelpScreen"]

\* The BINDINGS of the screens, of the application and (for the keys of the
\* model) of the DataTable that has the focus on the three table screens.
CategoriesScreen_BINDINGS ==
    ("j" :> "cursor_down") @@ ("k" :> "cursor_up") @@ ("enter" :> "select")
    @@ ("l" :> "select") @@ ("q" :> "quit") @@ ("?" :> "help")

HabitsScreen_BINDINGS ==
    ("j" :> "cursor_down") @@ ("k" :> "cursor_up") @@ ("enter" :> "select")
    @@ ("l" :> "select") @@ ("h" :> "back") @@ ("escape" :> "back")
    @@ ("q" :> "quit") @@ ("?" :> "help")

EntriesScreen_BINDINGS ==
    ("j" :> "cursor_down") @@ ("k" :> "cursor_up") @@ ("h" :> "back")
    @@ ("escape" :> "back") @@ ("q" :> "quit") @@ ("?" :> "help")
    @@ ("g" :> "go_top") @@ ("G" :> "go_bottom")

HelpScreen_BINDINGS == ("escape" :> "back") @@ ("q" :> "back") @@ ("?" :> "back")

HumaneCLI_BINDINGS == ("q" :> "quit")

DataTable_BINDINGS == ("enter" :> "select_cursor")

BINDINGS(screen) ==
    CASE screen = "CategoriesScreen" -> CategoriesScreen_BINDINGS
      [] screen = "HabitsScreen" -> HabitsScreen_BINDINGS
      [] screen = "EntriesScreen" -> EntriesScreen_BINDINGS
      [] screen = "HelpScreen" -> HelpScreen_BINDINGS

\* The active screen, and the screens below it.
Top == screen_stack[Len(screen_stack)]
Below == SubSeq(screen_stack, 1, Len(screen_stack) - 1)

\* What a handler leaves: the stack and the state of the application.
Stay == [stack |-> screen_stack, app |-> "running"]

\* App.push_screen, with the mount of the screen: an exception in on_mount ends
\* the application.
push_screen(s) ==
    IF s.screen = "HabitsScreen" /\ DuplicateKey(s.rows)
    THEN [stack |-> <<>>, app |-> "crashed"]
    ELSE [stack |-> Append(screen_stack, s), app |-> "running"]

pop_screen == [stack |-> Below, app |-> "running"]

\* App.action_quit
action_quit == [stack |-> <<>>, app |-> "exited"]

move_cursor(row) ==
    [stack |-> [screen_stack EXCEPT ![Len(screen_stack)] = [@ EXCEPT !.cursor_row = row]],
     app |-> "running"]

\* The key of the row under the cursor.
RowKey == Top.rows[Top.cursor_row + 1].key

CategoriesScreen_action_select ==
    IF Len(Top.rows) > 0 THEN push_screen(HabitsScreen(data, entries, RowKey)) ELSE Stay

CategoriesScreen_on_row_selected == push_screen(HabitsScreen(data, entries, RowKey))

HabitsScreen_action_select ==
    IF Len(Top.rows) > 0 THEN push_screen(EntriesScreen(habits, entries, RowKey)) ELSE Stay

HabitsScreen_on_row_selected == push_screen(EntriesScreen(habits, entries, RowKey))

\* DataTable.action_select_cursor posts RowSelected for the row under the cursor
\* of a table that has rows; EntriesScreen has no handler for it.
DataTable_action_select_cursor ==
    IF Len(Top.rows) = 0 THEN Stay
    ELSE CASE Top.screen = "CategoriesScreen" -> CategoriesScreen_on_row_selected
           [] Top.screen = "HabitsScreen" -> HabitsScreen_on_row_selected
           [] OTHER -> Stay

action_cursor_down ==
    move_cursor(IF Top.cursor_row + 1 < Len(Top.rows) THEN Top.cursor_row + 1
                ELSE Top.cursor_row)

action_cursor_up ==
    move_cursor(IF Top.cursor_row > 0 THEN Top.cursor_row - 1 ELSE Top.cursor_row)

action_go_top == move_cursor(0)
action_go_bottom == move_cursor(Len(Top.rows) - 1)
action_back == pop_screen
action_help == push_screen(HelpScreen)

run_action(name) ==
    CASE name = "select" ->
            (IF Top.screen = "CategoriesScreen" THEN CategoriesScreen_action_select
             ELSE HabitsScreen_action_select)
      [] name = "back" -> action_back
      [] name = "help" -> action_help
      [] name = "quit" -> action_quit
      [] name = "cursor_down" -> action_cursor_down
      [] name = "cursor_up" -> action_cursor_up
      [] name = "go_top" -> action_go_top
      [] name = "go_bottom" -> action_go_bottom

\* A key goes to the binding of the focused table, else of the active screen,
\* else of the application; a key bound nowhere does nothing.
Dispatch(k) ==
    IF Top.screen # "HelpScreen" /\ k \in DOMAIN DataTable_BINDINGS
    THEN DataTable_action_select_cursor
    ELSE IF k \in DOMAIN BINDINGS(Top.screen) THEN run_action(BINDINGS(Top.screen)[k])
    ELSE IF k \in DOMAIN HumaneCLI_BINDINGS THEN run_action(HumaneCLI_BINDINGS[k])
    ELSE Stay

\* What a key press does to the running application.
Press(k) ==
    /\ LET r == Dispatch(k)
       IN /\ screen_stack' = r.stack
          /\ app' = r.app
    /\ pressed' = k
    /\ UNCHANGED <<document, data, habits, entries, call, ret, cmd_vars>>

PressEnter ==
    /\ app = "running"
    /\ Press("enter")

PressL ==
    /\ app = "running"
    /\ Press("l")

PressH ==
    /\ app = "running"
    /\ Press("h")

PressEscape ==
    /\ app = "running"
    /\ Press("escape")

PressHelp ==
    /\ app = "running"
    /\ Press("?")

PressQ ==
    /\ app = "running"
    /\ Press("q")

PressJ ==
    /\ app = "running"
    /\ Press("j")

PressK ==
    /\ app = "running"
    /\ Press("k")

PressG ==
    /\ app = "running"
    /\ Press("g")

PressShiftG ==
    /\ app = "running"
    /\ Press("G")

\* The snapshots the application is run on: the habit lists without a repeated
\* habit and the lists of two habits (a habit listed twice among them), with
\* entries of which one habit has two, one has one and the others none.
AppHabitLists ==
    {hs \in HabitLists : Len(hs) = 2 \/ Cardinality(SetOf(hs)) = Len(hs)}

AppEntries == <<Stamp(1, E("tgu", Day1, 1)), Stamp(2, E("tgu", Day1T, 0)),
                Stamp(3, E("tgu-l", Day1, 2))>>

AppDocuments == {Snap(hs, AppEntries) : hs \in AppHabitLists}

\* explore: HumaneCLI(humane_data=data).run(); on_mount pushes the Categories screen.
InitApp ==
    /\ \E doc \in AppDocuments : Loaded(doc)
    /\ screen_stack = <<CategoriesScreen(data)>>
    /\ pressed = None
    /\ app = "running"
    /\ NoCmd

NextApp ==
    \/ PressEnter
    \/ PressL
    \/ PressH
    \/ PressEscape
    \/ PressHelp
    \/ PressQ
    \/ PressJ
    \/ PressK
    \/ PressG
    \/ PressShiftG

SpecApp == InitApp /\ [][NextApp]_vars

-----------------------------------------------------------------------------
(* The merge command: load, pick the target, pick the sources, confirm,     *)
(* merge and write.  A prompt of questionary is answered or aborted         *)
(* (.ask() returns None).                                                   *)

Answer(v) == [answer |-> v]
Aborted == [aborted |-> TRUE]

\* The file argument names no file that exists: there is no document.
NoFile == [no_file |-> TRUE]

\* sorted(habits, key=lambda h: (h.get("category", ""), h.get("name", ""))): a
\* stable sort on the pair.
ChoiceLeq(a, b) ==
    \/ StrLess(Get(a, "category", <<>>), Get(b, "category", <<>>))
    \/ /\ Get(a, "category", <<>>) = Get(b, "category", <<>>)
       /\ StrLeq(Get(a, "name", <<>>), Get(b, "name", <<>>))

RECURSIVE sorted_habits(_)
sorted_habits(hs) ==
    IF hs = <<>> THEN <<>>
    ELSE LET front == sorted_habits(SubSeq(hs, 1, Len(hs) - 1))
             h == hs[Len(hs)]
             p == Cardinality({i \in 1..Len(front) : ChoiceLeq(front[i], h)})
         IN SubSeq(front, 1, p) \o <<h>> \o SubSeq(front, p + 1, Len(front))

\* habit_choice reads h['name']: KeyError for a habit without a name.
ChoiceRaises(hs) == \E i \in 1..Len(hs) : "name" \notin DOMAIN hs[i]

\* source_choices: the habits whose id is not the target's.
source_choices(sorted, tgt) ==
    LET Keep(h) == h["id"] # tgt["id"]
    IN SelectSeq(sorted, Keep)

\* The choices ticked in a checkbox, in the order of the choices.
Checked(choices, ticked) ==
    LET upto[k \in 0..Len(choices)] ==
            IF k = 0 THEN <<>>
            ELSE IF k \in ticked THEN Append(upto[k - 1], choices[k])
            ELSE upto[k - 1]
    IN upto[Len(choices)]

\* raise typer.Exit(code), or an exception nothing catches (exit code 1), after
\* printing msgs.
Exit(code, msgs) ==
    /\ pc' = "exit"
    /\ exit_code' = code
    /\ console' = console \o msgs

\* load_data: a file that does not exist, or HumaneData(str(file)).
LoadData ==
    /\ pc = "load_data"
    /\ \/ /\ document = NoFile
          /\ Exit(1, << [msg |-> "Error: File not found"] >>)
          /\ UNCHANGED <<data, habits, entries, call>>
       \/ /\ document # NoFile
          /\ data' = document
          /\ habits' = HabitIndex(Get(document, "habits", <<>>))
          /\ entries' = Get(document, "entries", <<>>)
          /\ call' = [op |-> "__init__"]
          /\ pc' = "check_habits"
          /\ UNCHANGED <<console, exit_code>>
    /\ UNCHANGED <<document, ret, output, target, sources, written, app_vars>>

\* len(habits) < 2, then the choices of the target prompt.
CheckHabits ==
    /\ pc = "check_habits"
    /\ LET hs == Get(data, "habits", <<>>)
       IN \/ /\ Len(hs) < 2
             /\ Exit(1, << [msg |-> "Error: Need at least 2 habits to merge"] >>)
          \/ /\ Len(hs) >= 2
             /\ ChoiceRaises(hs)
             /\ Exit(1, << [msg |-> "KeyError"] >>)
          \/ /\ Len(hs) >= 2
             /\ ~ChoiceRaises(hs)
             /\ pc' = "select_target"
             /\ UNCHANGED <<console, exit_code>>
    /\ UNCHANGED <<document, data, habits, entries, call, ret, output, target, sources,
                   written, app_vars>>

SelectTarget ==
    /\ pc = "select_target"
    /\ LET choices == sorted_habits(Get(data, "habits", <<>>))
       IN \/ /\ Exit(0, << [msg |-> "Select TARGET habit", asked |-> Aborted] >>)
             /\ UNCHANGED target
          \/ \E i \in 1..Len(choices) :
                /\ target' = choices[i]
                /\ console' = Append(console, [msg |-> "Select TARGET habit",
                                               asked |-> Answer(choices[i])])
                /\ pc' = "select_sources"
                /\ UNCHANGED exit_code
    /\ UNCHANGED <<document, data, habits, entries, call, ret, output, sources, written,
                   app_vars>>

SelectSources ==
    /\ pc = "select_sources"
    /\ LET choices == source_choices(sorted_habits(Get(data, "habits", <<>>)), target)
       IN \/ /\ Exit(0, << [msg |-> "Select SOURCE habits", asked |-> Aborted],
                           [msg |-> "No sources selected, nothing to merge."] >>)
             /\ UNCHANGED sources
          \/ \E ticked \in SUBSET (1..Len(choices)) :
                LET picked == Checked(choices, ticked)
                IN IF Len(picked) = 0
                   THEN /\ Exit(0, << [msg |-> "Select SOURCE habits", asked |-> Answer(picked)],
                                      [msg |-> "No sources selected, nothing to merge."] >>)
                        /\ UNCHANGED sources
                   ELSE /\ sources' = picked
                        /\ console' = console
                              \o << [msg |-> "Select SOURCE habits", asked |-> Answer(picked)],
                                    [msg |-> "Merge Summary:"] >>
                        /\ pc' = "confirm"
                        /\ UNCHANGED exit_code
    /\ UNCHANGED <<document, data, habits, entries, call, ret, output, target, written,
                   app_vars>>

\* Mutant of Confirm: the merge goes on whatever the answer.
Confirm_Ignored ==
    /\ pc = "confirm"
    /\ \E asked \in {Answer(TRUE), Answer(FALSE), Aborted} :
          /\ console' = Append(console, [msg |-> "Proceed with merge?", asked |-> asked])
          /\ pc' = "merge"
          /\ UNCHANGED exit_code
    /\ UNCHANGED <<document, data, habits, entries, call, ret, output, target, sources,
                   written, app_vars>>

\* if not questionary.confirm(...).ask(): "no" and an aborted prompt both cancel.
Confirm ==
    /\ pc = "confirm"
    /\ \E asked \in {Answer(TRUE), Answer(FALSE), Aborted} :
          IF asked = Answer(TRUE)
          THEN /\ console' = Append(console, [msg |-> "Proceed with merge?", asked |-> asked])
               /\ pc' = "merge"
               /\ UNCHANGED exit_code
          ELSE Exit(0, << [msg |-> "Proceed with merge?", asked |-> asked],
                          [msg |-> "Cancelled."] >>)
    /\ UNCHANGED <<document, data, habits, entries, call, ret, output, target, sources,
                   written, app_vars>>

\* merge_habits, the count of the target's entries, and json.dumps of the result
\* to the output file or to standard output.  The text written is modelled by
\* the snapshot it serializes.
PerformMerge ==
    /\ pc = "merge"
    /\ LET source_ids == [i \in 1..Len(sources) |-> sources[i]["id"]]
           r == merge_habits(data, entries, target["id"], source_ids)
       IN /\ call' = [op |-> "merge_habits", target_habit_id |-> target["id"],
                      source_habit_ids |-> source_ids]
          /\ ret' = r
          /\ IF r.exc # None
             THEN /\ Exit(1, << [msg |-> r.exc] >>)
                  /\ UNCHANGED written
             ELSE LET merged_entries ==
                          get_entries_for_habit(r.value["entries"], target["id"])
                  IN /\ written' = Append(written,
                            [to |-> IF output = None THEN "stdout" ELSE output,
                             json |-> r.value])
                     /\ Exit(0, << [msg |-> "Merged into", count |-> Len(merged_entries)] >>
                                \o (IF output = None THEN <<>>
                                    ELSE << [msg |-> "Written to"] >>))
    /\ UNCHANGED <<document, data, habits, entries, output, target, sources, app_vars>>

\* The snapshots of the merge command, with entries that merge and entries
\* whose only entry has no id; or no file.
CmdEntryLists == {AppEntries, <<Stamp(1, NoIdShape)>>}

CmdDocuments ==
    {Snap(hs, es) : hs \in AppHabitLists, es \in CmdEntryLists}

Outputs == {None, "merged.json"}

InitCmd ==
    /\ document \in CmdDocuments \cup {NoFile}
    /\ data = None /\ habits = None /\ entries = None
    /\ call = [op |-> "not_loaded"]
    /\ ret = Returned(None)
    /\ pc = "load_data"
    /\ output \in Outputs
    /\ target = None
    /\ sources = <<>>
    /\ console = <<>>
    /\ written = <<>>
    /\ exit_code = None
    /\ NoApp

NextCmd ==
    \/ LoadData
    \/ CheckHabits
    \/ SelectTarget
    \/ SelectSources
    \/ Confirm
    \/ PerformMerge

SpecCmd == InitCmd /\ [][NextCmd]_vars

-----------------------------------------------------------------------------
(* What the claims speak of, stated from the loaded document and the result  *)
(* alone, without the operators of merge_habits.                             *)

\* A field of a record, or a default when the record lacks it.
FieldOr(r, k, dflt) == IF k \in DOMAIN r THEN r[k] ELSE dflt

\* The k-th smallest member of a set of indices.
Kth(I, k) == CHOOSE i \in I : Cardinality({j \in I : j < i}) = k - 1

\* The subsequence of s at the indices I, in order.
SubAt(s, I) == [k \in 1..Cardinality(I) |-> s[Kth(I, k)]]

\* The last call was merge_habits, and it returned a snapshot.
MergeCalled == call.op = "merge_habits"
MergeReturned == MergeCalled /\ ret.exc = None

Tgt == call.target_habit_id
Srcs == call.source_habit_ids
\* The effective sources: S minus {t}.
Eff == {Srcs[i] : i \in 1..Len(Srcs)} \ {Tgt}

InHabits == FieldOr(document, "habits", <<>>)
InEntries == FieldOr(document, "entries", <<>>)
ResHabits == ret.value["habits"]
ResEntries == ret.value["entries"]

\* The normalized date of an entry: the first 10 characters of its date field.
Date10(e) ==
    LET dt == FieldOr(e, "date", <<>>)
    IN [k \in 1..(IF Len(dt) < 10 THEN Len(dt) ELSE 10) |-> dt[k]]

\* The value of an entry, a missing value counting as 0.
Value0(e) == FieldOr(e, "value", 0)

\* The indices of the contributing entries, of those on normalized date d, and of
\* the untouched entries.
ContribIdx ==
    {i \in 1..Len(InEntries) : FieldOr(InEntries[i], "habitId", None) \in Eff \cup {Tgt}}
OnDate(d) == {i \in ContribIdx : Date10(InEntries[i]) = d}
UntouchedIdx == (1..Len(InEntries)) \ ContribIdx

\* The indices of the result entries attributed to the target.
ResTgtIdx ==
    {k \in 1..Len(ResEntries) : FieldOr(ResEntries[k], "habitId", None) = Tgt}

\* The greatest value on date d.
MaxOn(d) ==
    CHOOSE v \in {Value0(InEntries[i]) : i \in OnDate(d)} :
        \A i \in OnDate(d) : Value0(InEntries[i]) <= v

\* C1: whenever merge_habits returns, for every normalized date d on which a
\* contributing entry exists, the result holds an entry of the target for d, and
\* the value of every such entry is the maximum of the values of the contributing
\* entries on d, a missing value counting as 0.
C1_MaxValue ==
    MergeReturned =>
        \A i \in ContribIdx :
            LET d == Date10(InEntries[i])
            IN /\ \E k \in ResTgtIdx : FieldOr(ResEntries[k], "date", NoneS) = d
               /\ \A k \in ResTgtIdx :
                    FieldOr(ResEntries[k], "date", NoneS) = d
                        => FieldOr(ResEntries[k], "value", None) = MaxOn(d)

\* A date with three contributing entries, one without a value and one with a
\* negative value, from the target and from a source.
C1_Witness ==
    /\ MergeReturned
    /\ \E d \in {Date10(InEntries[i]) : i \in ContribIdx} :
          /\ Cardinality(OnDate(d)) >= 3
          /\ \E i, j, m \in OnDate(d) :
                /\ "value" \notin DOMAIN InEntries[i]
                /\ Value0(InEntries[j]) < 0
                /\ Value0(InEntries[m]) > 0
                /\ InEntries[i]["habitId"] # InEntries[j]["habitId"]

\* C2: whenever merge_habits returns, no entry of the result has a habitId in the
\* effective source set, and the date of every entry that was attributed to a
\* source is the date of a result entry attributed to the target.
C2_NoSourceHabitId ==
    MergeReturned =>
        /\ \A k \in 1..Len(ResEntries) :
              FieldOr(ResEntries[k], "habitId", None) \notin Eff
        /\ \A i \in 1..Len(InEntries) :
              FieldOr(InEntries[i], "habitId", None) \in Eff
                  => \E k \in ResTgtIdx : ResEntries[k]["date"] = Date10(InEntries[i])

\* Two entries of source habits are merged into a target that has no entry.
C2_Witness ==
    /\ MergeReturned
    /\ Cardinality({i \in 1..Len(InEntries) :
                        FieldOr(InEntries[i], "habitId", None) \in Eff}) >= 2
    /\ \A i \in 1..Len(InEntries) : FieldOr(InEntries[i], "habitId", None) # Tgt

\* The indices of the habits that are not effective sources.
KeptHabitIdx == {i \in 1..Len(InHabits) : InHabits[i]["id"] \notin Eff}

\* C3: whenever merge_habits returns, the habits of the result are the input
\* habits whose id is not an effective source, in input order, each record
\* unchanged.
C3_HabitsKept ==
    MergeReturned => ResHabits = SubAt(InHabits, KeptHabitIdx)

\* A source habit is removed, a habit remains, and the target names no habit.
C3_Witness ==
    /\ MergeReturned
    /\ ResHabits # <<>>
    /\ Len(ResHabits) < Len(InHabits)
    /\ \A i \in 1..Len(InHabits) : InHabits[i]["id"] # Tgt

\* The source list without the target.
SrcsWithoutTgt == SubAt(Srcs, {i \in 1..Len(Srcs) : Srcs[i] # Tgt})

\* C4: when the source list contains the target, merge_habits gives what it gives
\* on the source list with the target removed (the same snapshot, or the same
\* error); and in the snapshot returned every habit whose id is the target or is
\* not in the source list is still among the habits.
C4_TargetInSources ==
    (MergeCalled /\ \E i \in 1..Len(Srcs) : Srcs[i] = Tgt) =>
        /\ ret = merge_habits(data, entries, Tgt, SrcsWithoutTgt)
        /\ ret.exc = None =>
              \A i \in 1..Len(InHabits) :
                  (InHabits[i]["id"] = Tgt
                     \/ \A j \in 1..Len(Srcs) : Srcs[j] # InHabits[i]["id"])
                      => \E k \in 1..Len(ResHabits) : ResHabits[k] = InHabits[i]

\* The target is in a source list of two ids, it names a habit, the other source
\* names a habit that is removed and has an entry, and a third habit remains.
C4_Witness ==
    /\ MergeReturned
    /\ Len(Srcs) = 2
    /\ \E i \in 1..Len(Srcs) : Srcs[i] = Tgt
    /\ \E i \in 1..Len(InHabits) : InHabits[i]["id"] = Tgt
    /\ \E i \in 1..Len(InHabits) : InHabits[i]["id"] \in Eff
    /\ Len(ResHabits) >= 2
    /\ \E i \in 1..Len(InEntries) : FieldOr(InEntries[i], "habitId", None) \in Eff

\* C5: whenever merge_habits returns, the result entries begin with the untouched
\* entries, each record unchanged and in input order, and every entry after them
\* is a merged entry (its habitId is the target).
C5_UntouchedFirst ==
    MergeReturned =>
        /\ Len(ResEntries) >= Cardinality(UntouchedIdx)
        /\ SubSeq(ResEntries, 1, Cardinality(UntouchedIdx)) = SubAt(InEntries, UntouchedIdx)
        /\ \A k \in (Cardinality(UntouchedIdx) + 1)..Len(ResEntries) :
              FieldOr(ResEntries[k], "habitId", None) = Tgt

\* Two untouched entries, one without habitId and one with a date longer than 10
\* characters, stand after a contributing entry in the input.
C5_Witness ==
    /\ MergeReturned
    /\ Cardinality(UntouchedIdx) = 2
    /\ \E i \in UntouchedIdx : "habitId" \notin DOMAIN InEntries[i]
    /\ \E i \in UntouchedIdx : Len(FieldOr(InEntries[i], "date", <<>>)) > 10
    /\ \E i \in ContribIdx : \A j \in UntouchedIdx : i < j

\* The indices of the contributing entries that are the first of their
\* normalized date.
FirstOfDate ==
    {i \in ContribIdx :
        \A j \in ContribIdx : j < i => Date10(InEntries[j]) # Date10(InEntries[i])}

\* The date fields of the result entries attributed to the target, in order.
ResTgtDates ==
    [k \in 1..Cardinality(ResTgtIdx) |->
        FieldOr(ResEntries[Kth(ResTgtIdx, k)], "date", NoneS)]

\* C6: whenever merge_habits returns, the date fields of the result entries
\* attributed to the target are the distinct normalized dates of the contributing
\* entries, in order of first occurrence.
C6_DatesInFirstOccurrenceOrder ==
    MergeReturned =>
        ResTgtDates = [k \in 1..Cardinality(FirstOfDate) |->
                          Date10(InEntries[Kth(FirstOfDate, k)])]

\* Three contributing entries: a date longer than 10 characters first, then a
\* date shorter than 10 characters (which sorts before it), then the first day
\* again; two merged entries result.
C6_Witness ==
    /\ MergeReturned
    /\ Len(InEntries) = 3
    /\ ContribIdx = {1, 2, 3}
    /\ \A i \in 1..3 : "date" \in DOMAIN InEntries[i]
    /\ Len(InEntries[1]["date"]) > 10
    /\ Len(InEntries[2]["date"]) < 10
    /\ StrLess(InEntries[2]["date"], InEntries[1]["date"])
    /\ Date10(InEntries[3]) = Date10(InEntries[1])
    /\ Len(ResTgtDates) = 2

\* The first contributing entry on date d whose value is the greatest on d.
Winner(d) == Kth({i \in OnDate(d) : Value0(InEntries[i]) = MaxOn(d)}, 1)

\* C7: whenever merge_habits returns, the merged entry of every date group
\* carries the id and the createdAt (the empty string when missing) of the first
\* entry of the group, in input order, whose value is the group's maximum.
C7_FirstMaxWins ==
    MergeReturned =>
        \A k \in ResTgtIdx :
            LET w == InEntries[Winner(ResEntries[k]["date"])]
            IN /\ ResEntries[k]["id"] = w["id"]
               /\ ResEntries[k]["createdAt"] = FieldOr(w, "createdAt", "")

\* A date group of three entries where two share the maximum and the first entry
\* of the group is not one of them.
C7_Witness ==
    /\ MergeReturned
    /\ \E d \in {Date10(InEntries[i]) : i \in ContribIdx} :
          /\ Cardinality({i \in OnDate(d) : Value0(InEntries[i]) = MaxOn(d)}) >= 2
          /\ Cardinality(OnDate(d)) = 3
          /\ Winner(d) # Kth(OnDate(d), 1)
          /\ "createdAt" \in DOMAIN InEntries[Winner(d)]

\* The normalized dates of the contributing entries.
ContribDates == {Date10(InEntries[i]) : i \in ContribIdx}

\* C8 as claimed: merge_habits raises no error on any loaded snapshot, and reads a
\* missing value as 0, a missing date as the empty string and a missing createdAt
\* as the empty string.
C8_Total ==
    MergeCalled =>
        /\ ret.exc = None
        /\ \A k \in ResTgtIdx :
              LET w == InEntries[Winner(ResEntries[k]["date"])]
              IN /\ ResEntries[k]["value"] = FieldOr(w, "value", 0)
                 /\ ResEntries[k]["createdAt"] = FieldOr(w, "createdAt", "")
                 /\ ResEntries[k]["date"] = Date10(w)

\* C8 amended: merge_habits returns a snapshot exactly when the winning entry of
\* every date group carries an id, and raises KeyError otherwise; in the snapshot
\* returned a missing value is 0, a missing date is the empty string and a
\* missing createdAt is the empty string.
C8_TotalWhenWinnersHaveId ==
    MergeCalled =>
        /\ ret.exc \in {None, "KeyError"}
        /\ ret.exc = None <=> \A d \in ContribDates : "id" \in DOMAIN InEntries[Winner(d)]
        /\ ret.exc = None =>
              /\ \A k \in ResTgtIdx :
                    LET w == InEntries[Winner(ResEntries[k]["date"])]
                    IN /\ ResEntries[k]["value"] = FieldOr(w, "value", 0)
                       /\ ResEntries[k]["createdAt"] = FieldOr(w, "createdAt", "")
                       /\ ResEntries[k]["date"] = Date10(w)
              /\ \A i \in ContribIdx :
                    "date" \notin DOMAIN InEntries[i]
                        => \E k \in ResTgtIdx : ResEntries[k]["date"] = <<>>

\* merge_habits returns although a contributing entry has no id (it is not the
\* winner of its date), and the winner of another date has no date and no
\* createdAt.
C8_Witness ==
    /\ MergeReturned
    /\ \E i \in ContribIdx : "id" \notin DOMAIN InEntries[i]
    /\ \E d \in ContribDates :
          /\ "date" \notin DOMAIN InEntries[Winner(d)]
          /\ "createdAt" \notin DOMAIN InEntries[Winner(d)]

\* The fields the program reads and writes on a merged entry.
MergedFields == {"id", "habitId", "date", "value", "createdAt"}

\* C9 as claimed: every field of the originating input record, other than
\* habitId and date, is in the result record with the same value: for the habits
\* kept, the untouched entries and the merged entries (whose originating record
\* is the winning entry).
C9_FieldsPassThrough ==
    MergeReturned =>
        /\ Len(ResHabits) = Cardinality(KeptHabitIdx)
        /\ \A k \in 1..Len(ResHabits) :
              LET h == InHabits[Kth(KeptHabitIdx, k)]
              IN \A f \in DOMAIN h : f \in DOMAIN ResHabits[k] /\ ResHabits[k][f] = h[f]
        /\ \A k \in 1..Cardinality(UntouchedIdx) :
              LET e == InEntries[Kth(UntouchedIdx, k)]
              IN \A f \in DOMAIN e \ {"habitId", "date"} :
                    f \in DOMAIN ResEntries[k] /\ ResEntries[k][f] = e[f]
        /\ \A k \in ResTgtIdx :
              LET w == InEntries[Winner(ResEntries[k]["date"])]
              IN \A f \in DOMAIN w \ {"habitId", "date"} :
                    f \in DOMAIN ResEntries[k] /\ ResEntries[k][f] = w[f]

\* C9 amended: the habits kept and the untouched entries are in the result with
\* exactly their fields, unchanged; a merged entry has exactly the fields id,
\* habitId, date, value and createdAt, with the id, value (0 when missing) and
\* createdAt (empty when missing) of the winning entry: any other field of the
\* winning entry is dropped.
C9_MergedEntryHasFiveFields ==
    MergeReturned =>
        /\ Len(ResHabits) = Cardinality(KeptHabitIdx)
        /\ \A k \in 1..Len(ResHabits) : ResHabits[k] = InHabits[Kth(KeptHabitIdx, k)]
        /\ \A k \in 1..Cardinality(UntouchedIdx) :
              ResEntries[k] = InEntries[Kth(UntouchedIdx, k)]
        /\ \A k \in ResTgtIdx :
              LET w == InEntries[Winner(ResEntries[k]["date"])]
              IN /\ DOMAIN ResEntries[k] = MergedFields
                 /\ ResEntries[k]["id"] = w["id"]
                 /\ ResEntries[k]["habitId"] = Tgt
                 /\ ResEntries[k]["date"] = Date10(w)
                 /\ ResEntries[k]["value"] = FieldOr(w, "value", 0)
                 /\ ResEntries[k]["createdAt"] = FieldOr(w, "createdAt", "")

\* The winning entry of a merged entry, an untouched entry and a habit that is
\* kept each carry a field the program does not know.
C9_Witness ==
    /\ MergeReturned
    /\ \E k \in ResTgtIdx :
          DOMAIN InEntries[Winner(ResEntries[k]["date"])] \ MergedFields # {}
    /\ \E i \in UntouchedIdx : DOMAIN InEntries[i] \ MergedFields # {}
    /\ \E i \in KeptHabitIdx : "icon" \in DOMAIN InHabits[i]

\* C10: after any sequence of calls, self.data is the document that was loaded,
\* self.entries its entries and self.habits the index of its habits (for each id
\* the last habit with that id); so the result of the last merge_habits is the
\* merge of the loaded document.
C10_SnapshotNotMutated ==
    /\ data = document
    /\ entries = InEntries
    /\ DOMAIN habits = {InHabits[i]["id"] : i \in 1..Len(InHabits)}
    /\ \A i \in 1..Len(InHabits) :
          (\A j \in (i + 1)..Len(InHabits) : InHabits[j]["id"] # InHabits[i]["id"])
              => habits[InHabits[i]["id"]] = InHabits[i]
    /\ MergeCalled => ret = merge_habits(document, InEntries, Tgt, Srcs)

\* A merge_habits has returned a snapshot whose habits and entries both differ
\* from the loaded ones, and the object still holds the loaded ones.
C10_Witness ==
    /\ MergeReturned
    /\ ResHabits # InHabits
    /\ ResEntries # InEntries
    /\ Len(InHabits) = 3
    /\ Len(InEntries) = 3

\* C11: whenever merge_habits returns, the top-level fields of the result are
\* those of the loaded document together with habits and entries, and every
\* field other than habits and entries has the value it has in the document.
C11_TopLevelFieldsKept ==
    MergeReturned =>
        /\ DOMAIN ret.value = DOMAIN document \cup {"habits", "entries"}
        /\ \A f \in DOMAIN document \ {"habits", "entries"} : ret.value[f] = document[f]

\* The document has a version field and no entries field; the result has both.
C11_Witness ==
    /\ MergeReturned
    /\ "version" \in DOMAIN document
    /\ "entries" \notin DOMAIN document
    /\ ret.value["version"] = 1

\* The last call was get_categories; its items.
CategoriesCalled == call.op = "get_categories"

RECURSIVE SumLen(_)
SumLen(seqs) == IF seqs = <<>> THEN 0 ELSE Len(Head(seqs)) + SumLen(Tail(seqs))

\* C12 as claimed: for every key c of get_categories(), get_habits_by_category(c)
\* is the group of c, and these results together hold every habit exactly once.
C12_CategoriesPartition ==
    CategoriesCalled =>
        LET groups == ret.value
            by_cat == [i \in 1..Len(groups) |->
                          get_habits_by_category(data, groups[i].category)]
        IN /\ \A i \in 1..Len(groups) : by_cat[i] = groups[i].habits
           /\ SumLen(by_cat) = Len(InHabits)
           /\ \A j \in 1..Len(InHabits) :
                 \E i \in 1..Len(groups) :
                     \E k \in 1..Len(by_cat[i]) : by_cat[i][k] = InHabits[j]

\* The category of a habit, "uncategorized" when it has none.
CategoryOf(h) == FieldOr(h, "category", Str_uncategorized)

\* The indices of the habits of category c.
InCategory(c) == {i \in 1..Len(InHabits) : CategoryOf(InHabits[i]) = c}

RECURSIVE SumTargets(_)
SumTargets(I) ==
    IF I = {} THEN 0
    ELSE LET i == CHOOSE i \in I : TRUE
         IN FieldOr(InHabits[i], "targetPerWeek", 0) + SumTargets(I \ {i})

RECURSIVE SumCounts(_)
SumCounts(stats) == IF stats = <<>> THEN 0 ELSE Head(stats)[2] + SumCounts(Tail(stats))

StatsCalled == call.op = "get_category_stats"

\* C13: get_category_stats returns one tuple per distinct category, in strictly
\* ascending order of category name; each tuple holds the number of habits of
\* the category and the sum of their targetPerWeek, a missing one counting as 0;
\* the numbers of habits sum to the number of habits of the snapshot.
C13_CategoryStats ==
    StatsCalled =>
        LET stats == ret.value
        IN /\ {stats[i][1] : i \in 1..Len(stats)}
                = {CategoryOf(InHabits[j]) : j \in 1..Len(InHabits)}
           /\ \A i, j \in 1..Len(stats) : i < j => StrLess(stats[i][1], stats[j][1])
           /\ \A i \in 1..Len(stats) :
                 /\ stats[i][2] = Cardinality(InCategory(stats[i][1]))
                 /\ stats[i][3] = SumTargets(InCategory(stats[i][1]))
           /\ SumCounts(stats) = Len(InHabits)

\* Three categories that are not in ascending order in the document, one of them
\* "uncategorized" for a habit without category, and a habit without
\* targetPerWeek.
C13_Witness ==
    /\ StatsCalled
    /\ Len(ret.value) = 3
    /\ \E j \in 1..Len(InHabits) : "category" \notin DOMAIN InHabits[j]
    /\ \E j \in 1..Len(InHabits) : "targetPerWeek" \notin DOMAIN InHabits[j]
    /\ StrLess(CategoryOf(InHabits[2]), CategoryOf(InHabits[1]))

\* Lower case of a string that may hold upper-case letters outside the names of
\* the model ("Z").
LowerAny(s) == [i \in 1..Len(s) |-> IF s[i] = "Z" THEN "z" ELSE LowerChar(s[i])]

\* p occurs in s when case is ignored: at some offset, the lower-cased
\* characters agree.
OccursIgnoringCase(s, p) ==
    \E off \in 0..Len(s) :
        /\ off + Len(p) <= Len(s)
        /\ \A k \in 1..Len(p) : LowerAny(<<s[off + k]>>) = LowerAny(<<p[k]>>)

FindCalled == call.op = "find_habits_by_name"

\* The habits whose name (the empty string when missing) holds the pattern when
\* case is ignored, in the order of the document.
Matching(p) ==
    SubAt(InHabits,
          {i \in 1..Len(InHabits) : OccursIgnoringCase(FieldOr(InHabits[i], "name", <<>>), p)})

MergedAgain ==
    merge_habits(ret.value, FieldOr(ret.value, "entries", <<>>), Tgt, Srcs)

AllEntriesHaveId == \A i \in 1..Len(InEntries) : "id" \in DOMAIN InEntries[i]

\* C18: when every entry of the snapshot has an id, merging the result of
\* merge_habits(t, S) again with the same t and S returns the same snapshot:
\* same habits, same entries in the same order, same other fields.
C18_MergeIdempotent ==
    (MergeCalled /\ AllEntriesHaveId) =>
        /\ ret.exc = None
        /\ MergedAgain.exc = None
        /\ MergedAgain.value = ret.value
        /\ MergedAgain.value["habits"] = ResHabits
        /\ MergedAgain.value["entries"] = ResEntries

\* The first merge changed the snapshot: a source habit was removed, two entries
\* of one day were folded into one, and a date with a time was cut to the day.
C18_Witness ==
    /\ MergeCalled /\ AllEntriesHaveId /\ ret.exc = None
    /\ Len(ResHabits) < Len(InHabits)
    /\ Len(InEntries) = 3 /\ Len(ResEntries) = 2
    /\ \E i \in ContribIdx : Len(FieldOr(InEntries[i], "date", <<>>)) > DateLen
    /\ \E i \in UntouchedIdx : TRUE
    /\ MergedAgain.value = ret.value

SelectKeys == {"enter", "l"}
BackKeys == {"h", "escape"}
HelpKeys == {"?"}

Levels == <<"CategoriesScreen", "HabitsScreen", "EntriesScreen">>

\* Categories, Categories-Habits or Categories-Habits-Entries, optionally with
\* one Help screen on top.
StackShape(stack) ==
    LET n == Len(stack)
        m == IF n > 0 /\ stack[n].screen = "HelpScreen" THEN n - 1 ELSE n
    IN /\ m \in 1..3
       /\ \A i \in 1..m : stack[i].screen = Levels[i]

\* A key of the claim was pressed and the application is still running.
NavPressed == app = "running" /\ app' = "running" /\ pressed' \in SelectKeys \cup BackKeys \cup HelpKeys

\* The screens below the cursor screens are the ones that were there.
SelectPushesNext ==
    (pressed' \in SelectKeys /\ Top.screen \in {"CategoriesScreen", "HabitsScreen"}
        /\ Len(Top.rows) > 0)
      => /\ Len(screen_stack') = Len(screen_stack) + 1
         /\ SubSeq(screen_stack', 1, Len(screen_stack)) = screen_stack
         /\ screen_stack'[Len(screen_stack')].screen = Levels[Len(screen_stack) + 1]

BackPopsTop(keys) ==
    (pressed' \in keys /\ Top.screen \in {"HabitsScreen", "EntriesScreen", "HelpScreen"})
      => screen_stack' = Below

BackPopsTopOffHelp ==
    (pressed' \in BackKeys /\ Top.screen \in {"HabitsScreen", "EntriesScreen"})
      => screen_stack' = Below

CategoriesStays ==
    /\ Len(screen_stack') >= 1
    /\ screen_stack'[1].screen = "CategoriesScreen"
    /\ screen_stack'[1].rows = screen_stack[1].rows

\* C15: after a select, back or help key the stack is Categories,
\* Categories-Habits or Categories-Habits-Entries with at most one Help on top;
\* select on a row pushes exactly the next level; back (h or escape) on Habits,
\* Entries or Help removes exactly the top screen and leaves the screens below
\* as they were; the Categories screen is never popped.
C15_Navigation ==
    [][NavPressed =>
          /\ StackShape(screen_stack')
          /\ SelectPushesNext
          /\ BackPopsTop(BackKeys)
          /\ CategoriesStays]_vars

\* What remains of C15 when h on the Help screen is left out: escape closes the
\* Help screen, h and escape close Habits and Entries.
C15_NavigationButHOnHelp ==
    [][NavPressed =>
          /\ StackShape(screen_stack')
          /\ SelectPushesNext
          /\ BackPopsTop({"escape"})
          /\ BackPopsTopOffHelp
          /\ CategoriesStays]_vars

\* h was pressed on the Help screen and the Help screen is still on top.
C15_HOnHelp ==
    /\ app = "running" /\ pressed = "h"
    /\ Len(screen_stack) = 4
    /\ Top.screen = "HelpScreen"

\* The Habits screen opened from a row of the Categories screen, and that row.
HabitsOpen ==
    /\ app = "running"
    /\ Len(screen_stack) >= 2
    /\ screen_stack[2].screen = "HabitsScreen"

OpenedRow == screen_stack[1].rows[screen_stack[1].cursor_row + 1]

EntriesOf(habit_id) ==
    {j \in 1..Len(entries) : FieldOr(entries[j], "habitId", None) = habit_id}

\* The entry count shown for each habit is the number of entries of its id.
EntryCountsShown ==
    \A i \in 1..Len(screen_stack[2].rows) :
        screen_stack[2].rows[i].cells[3]
            = Str(Cardinality(EntriesOf(screen_stack[2].rows[i].key)))

\* C16: the Habits screen opened by selecting a row of the Categories screen
\* lists as many habit rows as the habit count shown on that row, and the entry
\* count shown for each habit is the number of entries whose habitId is its id.
C16_RowCounts ==
    HabitsOpen =>
        /\ OpenedRow.key = screen_stack[2].category
        /\ OpenedRow.cells[2] = Str(Len(screen_stack[2].rows))
        /\ EntryCountsShown

\* What remains of C16: the entry counts, and the habit count for a category
\* other than "uncategorized".
C16_RowCountsButUncategorized ==
    HabitsOpen =>
        /\ OpenedRow.key = screen_stack[2].category
        /\ OpenedRow.key # Str_uncategorized
              => OpenedRow.cells[2] = Str(Len(screen_stack[2].rows))
        /\ EntryCountsShown

\* merge_habits was called by the merge command; a snapshot was written.
MergeRan == call.op = "merge_habits"
SnapshotWritten == written # <<>>

LoadedHabits == FieldOr(document, "habits", <<>>)
InLoadedHabits(h) == \E i \in 1..Len(LoadedHabits) : LoadedHabits[i] = h

\* The i-th line of the console is the prompt msg, and it was answered.
AnsweredAt(i, msg) ==
    /\ Len(console) >= i
    /\ console[i].msg = msg
    /\ "answer" \in DOMAIN console[i].asked

\* A prompt was aborted, no source was ticked, or the confirmation was not yes.
Cancelled ==
    \E i \in 1..Len(console) :
        /\ "asked" \in DOMAIN console[i]
        /\ \/ "aborted" \in DOMAIN console[i].asked
           \/ console[i].msg = "Select SOURCE habits" /\ console[i].asked = Answer(<<>>)
           \/ console[i].msg = "Proceed with merge?" /\ console[i].asked = Answer(FALSE)

\* The steps before the merge, in their order: at least 2 habits loaded, a
\* target chosen, then sources chosen (at least one, none with the target's id),
\* then the confirmation answered yes; the merge is called with them.
StepsBeforeMerge ==
    /\ Len(LoadedHabits) >= 2
    /\ AnsweredAt(1, "Select TARGET habit")
    /\ InLoadedHabits(console[1].asked.answer)
    /\ AnsweredAt(2, "Select SOURCE habits")
    /\ LET picked == console[2].asked.answer
       IN /\ Len(picked) >= 1
          /\ \A k \in 1..Len(picked) :
                /\ InLoadedHabits(picked[k])
                /\ picked[k]["id"] # console[1].asked.answer["id"]
          /\ call.source_habit_ids = [k \in 1..Len(picked) |-> picked[k]["id"]]
    /\ call.target_habit_id = console[1].asked.answer["id"]
    /\ AnsweredAt(4, "Proceed with merge?")
    /\ console[4].asked = Answer(TRUE)
    /\ ~Cancelled

\* C17: the merge command runs merge_habits and writes the merged snapshot (to
\* the output file or to standard output) only after a snapshot of at least 2
\* habits was loaded, a target was chosen, a non-empty set of sources without
\* the target was chosen and the confirmation was answered yes, in this order;
\* with fewer than 2 habits it exits with code 1, and after an aborted target
\* prompt, no source or a declined confirmation with code 0, writing nothing.
C17_MergeOnlyAfterConfirm ==
    /\ (MergeRan \/ SnapshotWritten) => StepsBeforeMerge
    /\ SnapshotWritten =>
          /\ MergeRan /\ ret.exc = None
          /\ written = << [to |-> IF output = None THEN "stdout" ELSE output,
                           json |-> ret.value] >>
          /\ exit_code = 0
    /\ (pc = "exit" /\ document # NoFile /\ Len(LoadedHabits) < 2) =>
          /\ exit_code = 1 /\ ~MergeRan /\ ~SnapshotWritten
          /\ \A i \in 1..Len(console) : "asked" \notin DOMAIN console[i]
    /\ Cancelled =>
          /\ pc = "exit" /\ exit_code = 0 /\ ~MergeRan /\ ~SnapshotWritten

\* Two sources were merged into the target and the snapshot went to the file.
C17_Witness ==
    /\ SnapshotWritten
    /\ Len(sources) = 2
    /\ written[1].to = "merged.json"
    /\ Len(written[1].json["habits"]) < Len(LoadedHabits)
    /\ exit_code = 0

====
